---- MODULE Spec2Model ----
(***************************************************************************)
(* Model of the contacts CRUD service of src/main.py: the "contacts" table *)
(* (ContactDB), the request-scoped session of get_db, and the handlers     *)
(* get_contact, create_contact, update_contact and delete_contact.  The    *)
(* handlers are plain `def` functions, so the framework runs them on a     *)
(* thread pool: several requests are in flight at once and interleave at   *)
(* their database accesses and clock readings.                             *)
(***************************************************************************)
EXTENDS Integers, FiniteSets, TLC

\* ------------------------------------------------------------------ bounds

\* Number of requests accepted over a run (caps ids and clock readings).
MaxRequests == 3

\* Threads of the pool that serve requests concurrently.
Workers == {"w1", "w2"}

\* ------------------------------------------------------------------ values

\* SQL NULL / Python None.
NULL == "NULL"

\* A field of a ContactUpdate that the request body did not supply
\* (absent from the model's fields-set, dropped by dict(exclude_unset=True)).
UNSET == "UNSET"

Names == {"", "Ann"}
Emails == {"a@x.com", "b@x.com"}
Phones == {"555"}
Companies == {"Acme"}

\* The text fields a request body carries.
Fields == {"name", "email", "phone", "company"}

\* Attributes of a loaded ContactDB object that update_contact may assign.
Columns == Fields \cup {"updated_at"}

\* ContactCreate: name and email required str (the empty string is a str),
\* phone and company Optional.  Contacts are created with or without a phone
\* and without a company.
CreateInputs ==
    [name : Names, email : Emails, phone : Phones \cup {NULL}, company : {NULL}]

\* ContactUpdate: every field Optional with default None; a field is either
\* not supplied, supplied as null, or supplied with a value.  Updates rename,
\* move to the second email, clear the phone and set the company.
UpdateInputs ==
    [name : {"Bob", NULL, UNSET}, email : {"b@x.com", NULL, UNSET},
     phone : {NULL, UNSET}, company : Companies \cup {UNSET}]

\* The bodies concurrent requests carry: only the email, the field their
\* races turn on, varies.
RaceCreateInputs ==
    [name : {"Ann"}, email : Emails, phone : {NULL}, company : {NULL}]

RaceUpdateInputs ==
    [name : {UNSET}, email : Emails \cup {NULL, UNSET},
     phone : {UNSET}, company : {UNSET}]

\* Body of a request that carries none (GET, DELETE).
NoInput == [name |-> UNSET, email |-> UNSET, phone |-> UNSET, company |-> UNSET]

\* The empty value of a variable that holds a row (no object loaded, no
\* response body).
NoRow ==
    [id |-> 0, name |-> NULL, email |-> NULL, phone |-> NULL, company |-> NULL,
     created_at |-> 0, updated_at |-> 0]

\* Path parameter contact_id of GET/PUT/DELETE /contacts/{contact_id}: the ids
\* the earlier requests of a run can have assigned.
ContactIds == 1..(MaxRequests - 1)

\* ------------------------------------------------------------------- state

VARIABLES
    table,      \* the rows of "contacts" (committed state of the database)
    clock,      \* the latest reading of datetime.utcnow(); a reading made by
                \* a later statement is strictly later (a statement takes
                \* longer than the clock's resolution), while the two column
                \* defaults evaluated inside one INSERT may read the same instant
    started,    \* requests accepted so far
    everIds,    \* history: every id an INSERT has assigned
    pc,         \* per worker: position of its request in the handler
    op,         \* per worker: the route being served
    cid,        \* per worker: the contact_id path parameter
    inp,        \* per worker: the request body
    sess,       \* per worker: the session of get_db ("none", "open", "closed")
    closes,     \* per worker: calls of db.close() for the current request
    loaded,     \* per worker: the ORM object's attributes as loaded from the row
    cur,        \* per worker: the ORM object's current attributes
    exc,        \* per worker: the exception that ended the handler, or "none"
    view        \* per worker: the object the handler returned

vars == <<table, clock, started, everIds, pc, op, cid, inp, sess, closes,
          loaded, cur, exc, view>>

reqVars == <<op, cid, inp>>

\* ------------------------------------------------------------ pure helpers

MaxOf(S) == CHOOSE x \in S : \A y \in S : y <= x

\* Mutant of RowsById: the filter on id is dropped.
RowsById_NoFilter(tbl, i) == tbl

\* db.query(ContactDB).filter(ContactDB.id == i): the rows with that id.
RowsById(tbl, i) == {r \in tbl : r.id = i}

\* Mutant of RowsByEmail: the existence check compares the wrong column.
RowsByEmail_ByName(tbl, e) == {r \in tbl : r.name = e}

\* db.query(ContactDB).filter(ContactDB.email == e): the rows with that email.
RowsByEmail(tbl, e) == {r \in tbl : r.email = e}

\* Integer primary key of SQLite without AUTOINCREMENT: the rowid of a new
\* row is one more than the largest rowid in the table, 1 in an empty table.
NextId(tbl) == IF tbl = {} THEN 1 ELSE MaxOf({r.id : r \in tbl}) + 1

\* Mutant of UniqueViolation: the email column is not declared unique.
UniqueViolation_NotUnique(tbl, i, e) == FALSE

\* unique=True on email: an INSERT or UPDATE storing email e in the row with
\* id i fails when another row holds e.  NULLs never collide in a unique index.
UniqueViolation(tbl, i, e) ==
    e # NULL /\ \E r \in tbl : r.id # i /\ r.email = e

\* Mutant of ApplyUpdate: contact.dict() without exclude_unset, so that the
\* fields the body did not supply are assigned their default None.
ApplyUpdate_NoExclude(row, u, now) ==
    [c \in DOMAIN row |->
        IF c = "updated_at" THEN now
        ELSE IF c \in {"name", "email", "phone", "company"}
             THEN (IF u[c] = "UNSET" THEN "NULL" ELSE u[c])
        ELSE row[c]]

\* contact.dict(exclude_unset=True) followed by setattr for every item, and
\* the assignment of updated_at: the object's attributes after lines 144-148.
ApplyUpdate(row, u, now) ==
    [c \in DOMAIN row |->
        IF c = "updated_at" THEN now
        ELSE IF c \in Fields /\ u[c] # UNSET THEN u[c]
        ELSE row[c]]

\* The columns a flush writes: the attributes whose value differs from the
\* loaded one (the unit of work emits SET only for net changes).
Dirty(old, new) == {c \in Columns : new[c] # old[c]}

\* UPDATE contacts SET <dirty columns> WHERE id = old.id.
FlushUpdate(tbl, old, new) ==
    {IF r.id = old.id
        THEN [c \in DOMAIN r |-> IF c \in Dirty(old, new) THEN new[c] ELSE r[c]]
        ELSE r : r \in tbl}

\* ContactDB(**contact.dict()) inserted: id from the table, created_at and
\* updated_at from their column defaults.
NewRow(i, c, t1, t2) ==
    [id |-> i, name |-> c.name, email |-> c.email, phone |-> c.phone,
     company |-> c.company, created_at |-> t1, updated_at |-> t2]

\* response_model=Contact: name and email are `str`; a returned object whose
\* name or email is None fails response validation.
ResponseError(row) ==
    IF row.name = NULL \/ row.email = NULL THEN "ResponseValidationError" ELSE "none"

\* The HTTP status a finished request answers with.
HttpStatus(e) ==
    CASE e = "none" -> 200
      [] e = "NotFound" -> 404
      [] e = "EmailConflict" -> 400
      [] OTHER -> 500

\* ----------------------------------------------------------------- initial

Init ==
    /\ table = {}
    /\ clock = 0
    /\ started = 0
    /\ everIds = {}
    /\ pc = [p \in Workers |-> "idle"]
    /\ op = [p \in Workers |-> "none"]
    /\ cid = [p \in Workers |-> 0]
    /\ inp = [p \in Workers |-> NoInput]
    /\ sess = [p \in Workers |-> "none"]
    /\ closes = [p \in Workers |-> 0]
    /\ loaded = [p \in Workers |-> NoRow]
    /\ cur = [p \in Workers |-> NoRow]
    /\ exc = [p \in Workers |-> "none"]
    /\ view = [p \in Workers |-> NoRow]

\* ----------------------------------------------------------------- actions

\* A request is dispatched to worker p; Depends(get_db) opens its session.
Begin(p, o, i, body) ==
    /\ pc[p] = "idle"
    /\ started < MaxRequests
    /\ started' = started + 1
    /\ pc' = [pc EXCEPT ![p] = "query"]
    /\ op' = [op EXCEPT ![p] = o]
    /\ cid' = [cid EXCEPT ![p] = i]
    /\ inp' = [inp EXCEPT ![p] = body]
    /\ sess' = [sess EXCEPT ![p] = "open"]
    /\ closes' = [closes EXCEPT ![p] = 0]
    /\ UNCHANGED <<table, clock, everIds, loaded, cur, exc, view>>

BeginGet(p) == \E i \in ContactIds : Begin(p, "get", i, NoInput)

BeginCreate(p, bodies) == \E c \in bodies : Begin(p, "create", 0, c)

BeginUpdate(p, bodies) ==
    \E i \in ContactIds, u \in bodies : Begin(p, "update", i, u)

BeginDelete(p) == \E i \in ContactIds : Begin(p, "delete", i, NoInput)

\* The handler raises e: control leaves it for the finally of get_db.
Raise(p, e) ==
    /\ pc' = [pc EXCEPT ![p] = "close"]
    /\ exc' = [exc EXCEPT ![p] = e]

\* get_contact: query by id, 404 when absent, else return the object.
GetQuery(p) ==
    /\ pc[p] = "query" /\ op[p] = "get"
    /\ IF RowsById(table, cid[p]) = {}
          THEN /\ Raise(p, "NotFound")
               /\ UNCHANGED view
          ELSE LET row == CHOOSE r \in RowsById(table, cid[p]) : TRUE IN
               /\ Raise(p, ResponseError(row))
               /\ view' = [view EXCEPT ![p] = row]
    /\ UNCHANGED <<table, clock, started, everIds, reqVars, sess, closes, loaded, cur>>

\* create_contact, the existence check: 400 when a row holds the email.
CreateQuery(p) ==
    /\ pc[p] = "query" /\ op[p] = "create"
    /\ IF RowsByEmail(table, inp[p].email) # {}
          THEN Raise(p, "EmailConflict")
          ELSE /\ pc' = [pc EXCEPT ![p] = "commit"]
               /\ UNCHANGED exc
    /\ UNCHANGED <<table, clock, started, everIds, reqVars, sess, closes, loaded, cur, view>>

\* create_contact, db.add and db.commit: the INSERT.  The two column defaults
\* are evaluated one after the other, each with its own call of utcnow: the
\* second reading is the first or a later one.
CreateCommit(p) ==
    /\ pc[p] = "commit" /\ op[p] = "create"
    /\ IF UniqueViolation(table, 0, inp[p].email)
          THEN /\ Raise(p, "IntegrityError")
               /\ UNCHANGED <<table, clock, everIds, loaded, cur>>
          ELSE \E t2 \in {clock + 1, clock + 2} :
               LET row == NewRow(NextId(table), inp[p], clock + 1, t2) IN
               /\ table' = table \cup {row}
               /\ clock' = t2
               /\ everIds' = everIds \cup {row.id}
               /\ loaded' = [loaded EXCEPT ![p] = row]
               /\ cur' = [cur EXCEPT ![p] = row]
               /\ pc' = [pc EXCEPT ![p] = "refresh"]
               /\ UNCHANGED exc
    /\ UNCHANGED <<started, reqVars, sess, closes, view>>

\* update_contact, the query by id: 404 when absent, else the row is loaded.
UpdateQuery(p) ==
    /\ pc[p] = "query" /\ op[p] = "update"
    /\ IF RowsById(table, cid[p]) = {}
          THEN /\ Raise(p, "NotFound")
               /\ UNCHANGED <<loaded, cur>>
          ELSE LET row == CHOOSE r \in RowsById(table, cid[p]) : TRUE IN
               /\ loaded' = [loaded EXCEPT ![p] = row]
               /\ cur' = [cur EXCEPT ![p] = row]
               /\ pc' = [pc EXCEPT ![p] = "set"]
               /\ UNCHANGED exc
    /\ UNCHANGED <<table, clock, started, everIds, reqVars, sess, closes, view>>

\* update_contact, the setattr loop and updated_at = datetime.utcnow().
UpdateSet(p) ==
    /\ pc[p] = "set" /\ op[p] = "update"
    /\ clock' = clock + 1
    /\ cur' = [cur EXCEPT ![p] = ApplyUpdate(cur[p], inp[p], clock + 1)]
    /\ pc' = [pc EXCEPT ![p] = "commit"]
    /\ UNCHANGED <<table, started, everIds, reqVars, sess, closes, loaded, exc, view>>

\* update_contact, db.commit: the UPDATE of the dirty columns.  No row
\* matched (deleted meanwhile) is a StaleDataError; a duplicate email is an
\* IntegrityError.  Neither is caught by the handler.
UpdateCommit(p) ==
    /\ pc[p] = "commit" /\ op[p] = "update"
    /\ IF RowsById(table, loaded[p].id) = {}
          THEN /\ Raise(p, "StaleDataError")
               /\ UNCHANGED table
          ELSE IF "email" \in Dirty(loaded[p], cur[p])
                  /\ UniqueViolation(table, loaded[p].id, cur[p].email)
          THEN /\ Raise(p, "IntegrityError")
               /\ UNCHANGED table
          ELSE /\ table' = FlushUpdate(table, loaded[p], cur[p])
               /\ pc' = [pc EXCEPT ![p] = "refresh"]
               /\ UNCHANGED exc
    /\ UNCHANGED <<clock, started, everIds, reqVars, sess, closes, loaded, cur, view>>

\* db.refresh(db_contact) and return: the row is read again by primary key.
Refresh(p) ==
    /\ pc[p] = "refresh"
    /\ IF RowsById(table, loaded[p].id) = {}
          THEN /\ Raise(p, "InvalidRequestError")
               /\ UNCHANGED view
          ELSE LET row == CHOOSE r \in RowsById(table, loaded[p].id) : TRUE IN
               /\ Raise(p, ResponseError(row))
               /\ view' = [view EXCEPT ![p] = row]
    /\ UNCHANGED <<table, clock, started, everIds, reqVars, sess, closes, loaded, cur>>

\* delete_contact, the query by id.
DeleteQuery(p) ==
    /\ pc[p] = "query" /\ op[p] = "delete"
    /\ IF RowsById(table, cid[p]) = {}
          THEN /\ Raise(p, "NotFound")
               /\ UNCHANGED <<loaded, cur>>
          ELSE LET row == CHOOSE r \in RowsById(table, cid[p]) : TRUE IN
               /\ loaded' = [loaded EXCEPT ![p] = row]
               /\ cur' = [cur EXCEPT ![p] = row]
               /\ pc' = [pc EXCEPT ![p] = "commit"]
               /\ UNCHANGED exc
    /\ UNCHANGED <<table, clock, started, everIds, reqVars, sess, closes, view>>

\* delete_contact, db.delete and db.commit: DELETE ... WHERE id = ?.  A
\* DELETE that matches no row only warns; the handler returns its message.
DeleteCommit(p) ==
    /\ pc[p] = "commit" /\ op[p] = "delete"
    /\ table' = table \ RowsById(table, loaded[p].id)
    /\ pc' = [pc EXCEPT ![p] = "close"]
    /\ UNCHANGED <<clock, started, everIds, reqVars, sess, closes, loaded, cur, exc, view>>

\* db.commit() fails in the storage engine (locked database, disk): the
\* exception propagates, nothing is written.
CommitFault(p) ==
    /\ pc[p] = "commit"
    /\ Raise(p, "OperationalError")
    /\ UNCHANGED <<table, clock, started, everIds, reqVars, sess, closes, loaded, cur, view>>

\* Mutant of CloseSession: db.close() after the yield without try/finally,
\* reached only when the handler returns normally.
CloseSession_NoFinally(p) ==
    IF exc[p] = "none"
        THEN /\ sess' = [sess EXCEPT ![p] = "closed"]
             /\ closes' = [closes EXCEPT ![p] = closes[p] + 1]
        ELSE UNCHANGED <<sess, closes>>

\* get_db, the finally clause: db.close().
CloseSession(p) ==
    /\ sess' = [sess EXCEPT ![p] = "closed"]
    /\ closes' = [closes EXCEPT ![p] = closes[p] + 1]

\* The finally clause runs, the response is sent and the worker returns to
\* the pool; its session stays as db.close() left it until the next request
\* opens a new one.
Close(p) ==
    /\ pc[p] = "close"
    /\ CloseSession(p)
    /\ pc' = [pc EXCEPT ![p] = "idle"]
    /\ op' = [op EXCEPT ![p] = "none"]
    /\ cid' = [cid EXCEPT ![p] = 0]
    /\ inp' = [inp EXCEPT ![p] = NoInput]
    /\ loaded' = [loaded EXCEPT ![p] = NoRow]
    /\ cur' = [cur EXCEPT ![p] = NoRow]
    /\ exc' = [exc EXCEPT ![p] = "none"]
    /\ view' = [view EXCEPT ![p] = NoRow]
    /\ UNCHANGED <<table, clock, started, everIds>>

\* One step of the request worker p serves.
Step(p) ==
    \/ GetQuery(p)
    \/ CreateQuery(p)
    \/ CreateCommit(p)
    \/ UpdateQuery(p)
    \/ UpdateSet(p)
    \/ UpdateCommit(p)
    \/ Refresh(p)
    \/ DeleteQuery(p)
    \/ DeleteCommit(p)
    \/ CommitFault(p)
    \/ Close(p)

Accept(p, creates, updates) ==
    \/ BeginGet(p)
    \/ BeginCreate(p, creates)
    \/ BeginUpdate(p, updates)
    \/ BeginDelete(p)

Next == \E p \in Workers : Accept(p, RaceCreateInputs, RaceUpdateInputs) \/ Step(p)

Spec == Init /\ [][Next]_vars

\* Requests served one at a time: a request is accepted only while no other
\* is in flight.
NoneInFlight == \A q \in Workers : pc[q] = "idle"

SeqWorker == "w1"

SeqNext ==
    \/ NoneInFlight /\ Accept(SeqWorker, CreateInputs, UpdateInputs)
    \/ Step(SeqWorker)

SeqSpec == Init /\ [][SeqNext]_vars

\* ------------------------------------------------------------------ claims

\* Worker p takes the step.
Moves(p) == pc'[p] # pc[p]

\* The INSERT of create_contact by p succeeds in the step.
Inserted(p) == pc[p] = "commit" /\ op[p] = "create" /\ pc'[p] = "refresh"

\* The UPDATE of update_contact by p succeeds in the step.
Updated(p) == pc[p] = "commit" /\ op[p] = "update" /\ pc'[p] = "refresh"

\* C1: in every reachable state, under any interleaving of create, update
\* and delete requests, no two distinct stored contacts hold the same email
\* value (a NULL email is the absence of a value).
C1_EmailUnique ==
    \A r1 \in table : \A r2 \in table :
        (r1 # r2 /\ r1.email # "NULL") => r1.email # r2.email

\* C1 witness: an update that supplied the email of another stored contact
\* reached its commit and was refused by the unique index.
C1_Witness ==
    \E p \in Workers :
        /\ pc[p] = "close" /\ op[p] = "update" /\ exc[p] = "IntegrityError"
        /\ \E r \in table : r.id # cid[p] /\ r.email = inp[p].email
        /\ \E r \in table : r.id = cid[p] /\ r.email # inp[p].email

\* C2: when two creates with the same email both pass the existence check
\* and one commits first, the INSERT of the other adds no row and ends with
\* EmailConflict (HTTP 400), a failure of the storage engine itself aside.
C2_RaceLoserGetsEmailConflict ==
    [][\A p \in Workers :
          ( /\ pc[p] = "commit" /\ op[p] = "create" /\ Moves(p)
            /\ exc'[p] # "OperationalError"
            /\ \E q \in Workers \ {p} :
                  /\ op[q] = "create" /\ inp[q].email = inp[p].email
                  /\ pc[q] \in {"refresh", "close"} /\ exc[q] = "none"
                  /\ \E r \in table : r.id = loaded[q].id /\ r.email = inp[p].email )
          => ( /\ table' = table
               /\ Cardinality({r \in table' : r.email = inp[p].email}) = 1
               /\ exc'[p] = "EmailConflict"
               /\ HttpStatus(exc'[p]) = 400 )]_vars

\* C3: a create whose email is held by a stored contact when the handler
\* checks it ends with EmailConflict (HTTP 400) and neither that step nor any
\* later step of the request changes the table.
C3_ExistingEmailRejected ==
    [][\A p \in Workers :
          /\ ( /\ pc[p] = "query" /\ op[p] = "create" /\ Moves(p)
               /\ \E r \in table : r.email = inp[p].email )
             => ( /\ exc'[p] = "EmailConflict"
                  /\ HttpStatus(exc'[p]) = 400
                  /\ pc'[p] = "close"
                  /\ table' = table )
          /\ (exc[p] = "EmailConflict" /\ Moves(p))
             => (table' = table /\ pc'[p] = "idle")]_vars

\* C3 witness: a create was refused with EmailConflict while a contact with
\* that email, and a second contact, are stored.
C3_Witness ==
    \E p \in Workers :
        /\ pc[p] = "close" /\ op[p] = "create" /\ exc[p] = "EmailConflict"
        /\ \E r \in table : r.email = inp[p].email
        /\ Cardinality(table) = 2

\* C4: the id a successful create assigns was never assigned before, not
\* even to a contact deleted since.
C4_IdsNeverReused ==
    [][\A p \in Workers :
          Inserted(p) =>
              \A r \in table' \ table : r.id \notin everIds]_vars

\* C5: getById, update and delete of an id that is not in the table end with
\* NotFound (HTTP 404) and neither that step nor any later step of the request
\* changes the table.
C5_AbsentIdNotFound ==
    [][\A p \in Workers :
          /\ ( /\ pc[p] = "query" /\ op[p] \in {"get", "update", "delete"}
               /\ Moves(p)
               /\ ~ \E r \in table : r.id = cid[p] )
             => ( /\ exc'[p] = "NotFound"
                  /\ HttpStatus(exc'[p]) = 404
                  /\ pc'[p] = "close"
                  /\ table' = table )
          /\ (exc[p] = "NotFound" /\ Moves(p))
             => (table' = table /\ pc'[p] = "idle")]_vars

\* C5 witness: an update addressed an id that was assigned and has been
\* deleted, and was answered NotFound.
C5_Witness ==
    \E p \in Workers :
        /\ pc[p] = "close" /\ op[p] = "update" /\ exc[p] = "NotFound"
        /\ cid[p] \in everIds
        /\ ~ \E r \in table : r.id = cid[p]

\* C6: a successful create stores, under a fresh id, exactly one row that a
\* read by that id returns, whose name, email, phone and company are the
\* input's and whose created_at equals its updated_at.
C6_CreateRoundTrip ==
    [][\A p \in Workers :
          Inserted(p) =>
              \E r \in table' :
                  /\ table' = table \cup {r}
                  /\ {x \in table' : x.id = r.id} = {r}
                  /\ r.id \notin everIds
                  /\ \A f \in {"name", "email", "phone", "company"} :
                        r[f] = inp[p][f]
                  /\ r.created_at = r.updated_at]_vars

C8_UpdatedAtMovesForward ==
    [][/\ \A r \in table' : r.updated_at >= r.created_at
       /\ \A p \in Workers :
             Updated(p) =>
                 \A old \in table : \A new \in table' :
                     (old.id = loaded[p].id /\ new.id = old.id)
                         => new.updated_at > old.updated_at]_vars

\* C9: every stored contact has a name that is present and not empty and an
\* email that is present.
C9_NameAndEmailPresent ==
    \A r \in table : r.name # "NULL" /\ r.name # "" /\ r.email # "NULL"

\* C10: a request holds an open session exactly while it is in flight; the
\* step that finishes it, whatever the outcome, closes that session once; an
\* exception always leads to that step; and the table changes only in the
\* step of a commit that succeeds.
C10_SessionReleased ==
    [][/\ \A p \in Workers :
             /\ (pc'[p] # "idle") => (sess'[p] = "open" /\ closes'[p] = 0)
             /\ (pc'[p] = "idle") =>
                   \/ sess'[p] = "none" /\ closes'[p] = 0
                   \/ sess'[p] = "closed" /\ closes'[p] = 1
             /\ (pc[p] = "close" /\ Moves(p)) =>
                   /\ sess[p] = "open" /\ sess'[p] = "closed"
                   /\ closes'[p] = closes[p] + 1
                   /\ pc'[p] = "idle"
             /\ (exc'[p] # exc[p] /\ exc'[p] # "none") => pc'[p] = "close"
       /\ table' # table =>
             \E p \in Workers :
                 /\ pc[p] = "commit" /\ Moves(p)
                 /\ exc'[p] = "none"]_vars

\* C10 witness: one request has finished and released its session while
\* another, whose commit raised, is on its way out with its row not stored.
C10_Witness ==
    \E p \in Workers : \E q \in Workers :
        /\ pc[p] = "idle" /\ sess[p] = "closed" /\ closes[p] = 1
        /\ pc[q] = "close" /\ op[q] = "update" /\ exc[q] = "IntegrityError"
        /\ sess[q] = "open"
        /\ cur[q] \notin table

====
